---- MODULE Spec2Model ----
(***************************************************************************)
(* Model of bayes_meeg/samplers.py: the rejection sampler of the gamma     *)
(* hyperprior conditional (_cond_gamma_hyperprior_sampler), the slice      *)
(* sampler of one amplitude coordinate (sc_slice_sampler) and the block    *)
(* Gibbs driver (L21_gamma_hypermodel_sampler).                            *)
(*                                                                         *)
(* Numbers.  The program computes in float64.  The model computes in       *)
(* fixed point: the integer n stands for the real n / Unit.  Sums and      *)
(* differences are exact; products, quotients, square roots and logarithms *)
(* are rounded to the nearest grid point, as float64 rounds every result   *)
(* to the nearest representable number.                                    *)
(*                                                                         *)
(* Random draws.  np.random.rand() is a choice from RandSet, a grid inside *)
(* (0, 1); rng.permutation is a choice among all permutations; rtnorm is a *)
(* choice among the grid points of [-xi, xi] listed by RtDraws.            *)
(***************************************************************************)
EXTENDS Integers, Sequences, FiniteSets, TLC

VARIABLES
    G, M, X0, n_orient, beta, n_burnin, n_samples, sc_n_samples, ss_n_samples,
    gammas,         \* the hyperparameter vector (argument, then redrawn)
    X,              \* the amplitude matrix, or NoMatrix before line 111
    XChain, gammaChain,
    k, kSCGibbs, randLocOrder, pos, jLoc, jTime, jDir,
    a, b, c, d, XLocSqNorm,
    x, ssk,         \* sc_slice_sampler: the state x and the sweep counter
    gi, newGammas, XBlkNorm, env,   \* cond_gamma_hyperprior_sampler
    pc, err,
    hist            \* history: what the run has done, read only by the properties

inputs == <<G, M, X0, n_orient, beta, n_burnin, n_samples, sc_n_samples, ss_n_samples>>
loopv  == <<k, kSCGibbs, randLocOrder, pos, jLoc, jTime, jDir>>
coordv == <<a, b, c, d, XLocSqNorm>>
slicev == <<x, ssk>>
gammav == <<gi, newGammas, XBlkNorm, env>>
vars   == <<inputs, gammas, X, XChain, gammaChain, loopv, coordv, slicev, gammav,
            pc, err, hist>>

---------------------------------------------------------------------------
(* Bounds of the model. *)
MaxBurnin == 1
MaxSamples == 2
MaxScSamples == 2
MaxSsSamples == 2
MaxAbsX == 1
\* entries of X times outer iterations of a run
MaxWork == 2

(* The grid: Unit grid steps make 1.0 (float64 in the source). *)
Unit == 4

---------------------------------------------------------------------------
(* Fixed-point arithmetic. *)

Abs(v) == IF v < 0 THEN -v ELSE v

\* p / q rounded to the nearest integer, halves upwards (q # 0).
RoundDiv(p, q) ==
    IF q > 0 THEN (2 * p + q) \div (2 * q) ELSE (2 * (-p) + (-q)) \div (2 * (-q))

FMul(u, v) == RoundDiv(u * v, Unit)

FDiv(u, v) == RoundDiv(u * Unit, v)

\* math.sqrt of v >= 0, rounded to the nearest grid point.
FSqrt(v) ==
    CHOOSE r \in 0..(v + Unit) :
        /\ (2 * r - 1) * (2 * r - 1) <= 4 * v * Unit \/ r = 0
        /\ 4 * v * Unit < (2 * r + 1) * (2 * r + 1)

\* math.log on the grid: LnTable[n] is Unit * ln(n / Unit), rounded.
LnTable ==
    << -6, -3, -1, 0, 1, 2, 2, 3, 3, 4, 4, 4, 5, 5, 5, 6, 6, 6, 6, 6, 7, 7, 7, 7,
       7, 7, 8, 8, 8, 8, 8, 8, 8, 9, 9, 9, 9, 9, 9, 9, 9, 9, 9, 10, 10, 10, 10, 10 >>

Ln(v) == LnTable[v]

\* log1p(exp(z)) on the grid; beyond the table it rounds to 0 (z small) or z.
Log1pExpTable == << 1, 1, 1, 1, 1, 2, 2, 2, 3, 3, 4, 5, 5, 6, 7, 8, 9 >>

Log1pExp(z) ==
    IF z < -8 THEN 0 ELSE IF z > 8 THEN z ELSE Log1pExpTable[z + 9]

---------------------------------------------------------------------------
(* Arrays are functions on 0..n-1, as numpy indexes them. *)

Z(s) == [i \in 0..(Len(s) - 1) |-> s[i + 1]]

Size(f) == Cardinality(DOMAIN f)

RECURSIVE SumTo(_, _)
\* f[0] + ... + f[n-1]
SumTo(f, n) == IF n = 0 THEN 0 ELSE SumTo(f, n - 1) + f[n - 1]

\* None, an array that is not there.
NoMatrix == <<>>

n_sensors == Size(G)
n_dipoles == Size(G[0])
n_locations == n_dipoles \div n_orient
n_times == Size(M[0])

Dipoles == 0..(n_dipoles - 1)
Times == 0..(n_times - 1)
Locations == 0..(n_locations - 1)

\* np.sum(G ** 2, axis=0), np.dot(G.T, M), np.dot(G.T, G)
GColSqNorm == [j \in Dipoles |-> SumTo([s \in 0..(n_sensors - 1) |-> FMul(G[s][j], G[s][j])], n_sensors)]

GTM == [j \in Dipoles |-> [t \in Times |->
            SumTo([s \in 0..(n_sensors - 1) |-> FMul(G[s][j], M[s][t])], n_sensors)]]

GTG == [i \in Dipoles |-> [j \in Dipoles |->
            SumTo([s \in 0..(n_sensors - 1) |-> FMul(G[s][i], G[s][j])], n_sensors)]]

\* X0.all(): every entry is non-zero.
AllNonZero(A) == \A i \in DOMAIN A : \A t \in DOMAIN A[i] : A[i][t] # 0

Zeros(rows, cols) == [i \in 0..(rows - 1) |-> [t \in 0..(cols - 1) |-> 0]]

\* The X the driver starts from (lines 111-114).
StartX == IF ~AllNonZero(X0) THEN Zeros(n_locations * n_orient, n_times) ELSE X0

\* Rows of location group l: l * n_orient .. (l + 1) * n_orient - 1.
GroupRows(l) == (l * n_orient)..((l + 1) * n_orient - 1)

\* Sum of the squares of the entries of A in the rows of group l, all time points.
BlockSumSq(A, l) ==
    SumTo([r \in 0..(n_orient - 1) |->
              SumTo([t \in Times |-> FMul(A[l * n_orient + r][t], A[l * n_orient + r][t])],
                    n_times)],
          n_orient)

\* linalg.norm(XLoc, 'fro') ** 2 for the block of group l (line 134).
FroNormSq(A, l) == FMul(FSqrt(BlockSumSq(A, l)), FSqrt(BlockSumSq(A, l)))

\* np.sqrt(groups_norm2(X.copy(), n_orient)) (line 163).
BlkNorm(A) == [l \in Locations |-> FSqrt(BlockSumSq(A, l))]

\* jComp = jDir + jLoc * n_orient (line 140).
JComp(dir, loc) == dir + loc * n_orient

\* a = GColSqNorm[jLoc] / 2. (line 129)
CoefA(loc) == FDiv(GColSqNorm[loc], 2 * Unit)

\* c = 1. / gammas[jLoc] (line 130)
CoefC(g) == FDiv(Unit, g)

\* b (lines 143-145) for component comp at time t, with quadratic coefficient qa.
CoefB(A, comp, t, qa) ==
    GTM[comp][t]
    - SumTo([i \in Dipoles |-> FMul(A[i][t], GTG[i][comp])], n_dipoles)
    + FMul(FMul(2 * Unit, qa), A[comp][t])

\* d = XLocSqNorm - XjComp**2 (line 146)
CoefD(sq, xj) == sq - FMul(xj, xj)

\* A faulty variant of line 125: rng.randint(n_locations, size=n_locations).
LocOrders_Randint(n) == [0..(n - 1) -> 0..(n - 1)]

\* rng.permutation(n): every order of 0..n-1.
LocOrders(n) ==
    {p \in [0..(n - 1) -> 0..(n - 1)] : \A i, j \in 0..(n - 1) : p[i] = p[j] => i = j}

---------------------------------------------------------------------------
(* sc_slice_sampler (lines 65-92). *)

NoError == "none"
ShouldNotHappen == "ValueError: this should not happen"
MathDomain == "ValueError: math domain error"
ZeroDivision == "ZeroDivisionError"
NoneHasNoAll == "AttributeError: 'NoneType' object has no attribute 'all'"

\* A faulty variant of lines 70-74: the check of line 70 is missing.
SliceEnter_NoCheck(qa, qb) ==
    IF FSqrt(FMul(2 * Unit, qa)) = 0 THEN ZeroDivision ELSE NoError

\* Lines 70-74: the outcome of the entry check and of computing sigma and mu.
SliceEnter(qa, qb) ==
    IF qa = 0 /\ qb = 0 THEN ShouldNotHappen
    ELSE IF FSqrt(FMul(2 * Unit, qa)) = 0 THEN ZeroDivision
    ELSE NoError

\* np.random.rand(): a grid inside (0, 1).
RandSet == {1, 3}

\* The quantity under the root of line 85 for state xc and draw t:
\* (-log_y / c)**2 - d with log_y = -c * sqrt(x**2 + d) + log(t).
RootArg(qc, qd, xc, t) ==
    LET log_gy == -FMul(qc, FSqrt(FMul(xc, xc) + qd))
        log_y == log_gy + Ln(t)
        q == FDiv(-log_y, qc)
    IN  FMul(q, q) - qd

\* rtnorm(a=-xi, b=xi, ...): a point of [-xi, xi]; the model draws whole numbers.
RtDraws(xi) == {v \in {i * Unit : i \in (-MaxAbsX)..MaxAbsX} : -xi <= v /\ v <= xi}

\* One sweep (lines 79-90) from state xc with draw t: the set of outcomes.
SweepOutcomes(qc, qd, xc, t) ==
    IF FMul(xc, xc) + qd < 0 THEN {[err |-> MathDomain, x |-> xc, kind |-> "raise"]}
    ELSE IF RootArg(qc, qd, xc, t) < 0 THEN {[err |-> MathDomain, x |-> xc, kind |-> "raise"]}
    ELSE IF FSqrt(RootArg(qc, qd, xc, t)) > 0
         THEN {[err |-> NoError, x |-> r, kind |-> "rtnorm"] :
                  r \in RtDraws(FSqrt(RootArg(qc, qd, xc, t)))}
         ELSE {[err |-> NoError, x |-> 0, kind |-> "zero"]}

---------------------------------------------------------------------------
(* _cond_gamma_hyperprior_sampler (lines 11-47). *)

\* Lines 17-27: the envelope for coupling cp > 0.
Envelope(cp, bt) ==
    LET gammaMax == FSqrt(FMul(bt, cp))
        logPmax == -FDiv(cp, gammaMax) - FDiv(gammaMax, bt)
        xCeil == FDiv(FMul(bt, cp), gammaMax) + gammaMax
        logPMassOverCeil == Ln(bt) - FDiv(xCeil, bt)
        logPMassBelowXCeil == logPmax + Ln(xCeil)
    IN  [logPmax |-> logPmax, xCeil |-> xCeil,
         logPMassOverCeil |-> logPMassOverCeil,
         logPMassTotal |-> logPMassOverCeil
                           + Log1pExp(logPMassBelowXCeil - logPMassOverCeil)]

\* A faulty variant of line 14: the sign is lost.
ExpDraw_NoMinus(bt, u) == FMul(bt, Ln(u))

\* Line 14: the exponential draw for coupling == 0.
ExpDraw(bt, u) == -FMul(bt, Ln(u))

\* Line 32: the coin that picks the tail.
InTail(e, w) == Ln(w) + e.logPMassTotal < e.logPMassOverCeil

\* Lines 35-36 and 42: the candidate.
TailCandidate(e, bt, v) == -FMul(bt, Ln(v) - FDiv(e.xCeil, bt))

RectCandidate(e, v) == FMul(v, e.xCeil)

\* Lines 38 and 44: the acceptance tests.
TailAccepts(e, cp, bt, u, v) ==
    FMul(Ln(u), bt) < FDiv(cp, Ln(v) - FDiv(e.xCeil, bt))

RectAccepts(e, cp, bt, u, v) ==
    Ln(u) + e.logPmax < -FDiv(cp, RectCandidate(e, v)) - FDiv(RectCandidate(e, v), bt)

---------------------------------------------------------------------------
(* The arguments of a run. *)

\* Forward operators with one sensor: one dipole, two dipoles, a zero column.
GSet == {Z(<<Z(<<4>>)>>), Z(<<Z(<<4, 8>>)>>), Z(<<Z(<<0, 4>>)>>)}

\* Sensor data with one and with two time points.
MSet == {Z(<<Z(<<4>>)>>), Z(<<Z(<<4, 0>>)>>)}

\* Starting matrices: None, no zero entry, some zero entries.
X0Set(rows, cols) ==
    {NoMatrix,
     [i \in 0..(rows - 1) |-> [t \in 0..(cols - 1) |-> 4]],
     [i \in 0..(rows - 1) |-> [t \in 0..(cols - 1) |-> IF i + t = 0 THEN 4 ELSE 0]]}

\* Initial hyperparameters: all 0.25, or a negative one.
GammasSet(n) ==
    {[l \in 0..(n - 1) |-> 1], [l \in 0..(n - 1) |-> IF l = 0 THEN -4 ELSE 4]}

\* What the claims call a valid configuration.
ValidConfig ==
    /\ beta > 0
    /\ n_orient > 0
    /\ n_dipoles % n_orient = 0
    /\ \A l \in DOMAIN gammas : gammas[l] > 0

NoHist ==
    [visitW |-> <<>>, sweepW |-> <<>>, chainW |-> <<>>, XAtEnd |-> <<>>,
     gammaAtEnd |-> <<>>, sliceDraws |-> 0, xWrites |-> 0, redraws |-> 0,
     rejected |-> FALSE, via |-> {}, sweeps |-> 0,
     valid |-> FALSE, startX |-> NoMatrix,
     last |-> [kind |-> "none", arg |-> 0, xi |-> 0, pre |-> 0]]

InitAny ==
    /\ G \in GSet
    /\ M \in MSet
    /\ X0 \in X0Set(Size(G[0]), Size(M[0]))
    /\ n_orient \in {o \in 1..2 : Size(G[0]) % o = 0}
    /\ beta = 4
    /\ n_burnin \in 0..MaxBurnin
    /\ n_samples \in 1..MaxSamples
    /\ Size(G[0]) * Size(M[0]) * (n_burnin + n_samples) <= MaxWork
    /\ sc_n_samples \in 1..MaxScSamples
    /\ ss_n_samples \in 0..MaxSsSamples
    /\ gammas \in GammasSet(Size(G[0]) \div n_orient)
    /\ X = NoMatrix
    /\ XChain = <<>> /\ gammaChain = <<>>
    /\ k = 0 /\ kSCGibbs = 0 /\ randLocOrder = <<>> /\ pos = 0
    /\ jLoc = 0 /\ jTime = 0 /\ jDir = 0
    /\ a = 0 /\ b = 0 /\ c = 0 /\ d = 0 /\ XLocSqNorm = 0
    /\ x = 0 /\ ssk = 0
    /\ gi = 0 /\ newGammas = <<>> /\ XBlkNorm = <<>> /\ env = <<>>
    /\ pc = "entry" /\ err = NoError
    /\ hist = NoHist

\* The runs the claims are about start from a valid configuration.
Init == InitAny /\ ValidConfig

Raise(e) == pc' = "error" /\ err' = e

---------------------------------------------------------------------------
(* L21_gamma_hypermodel_sampler (lines 96-171). *)

\* Lines 98-114: allocate the chains, pick the starting X.
Enter ==
    /\ pc = "entry"
    /\ IF X0 = NoMatrix
       THEN /\ Raise(NoneHasNoAll)
            /\ UNCHANGED <<X, k>>
       ELSE /\ X' = StartX
            /\ k' = -n_burnin
            /\ pc' = "outer"
            /\ err' = err
    /\ XChain' = [s \in 0..(n_samples - 1) |-> Zeros(n_dipoles, n_times)]
    /\ gammaChain' = [s \in 0..(n_samples - 1) |-> [l \in Locations |-> 0]]
    /\ hist' = [hist EXCEPT !.chainW = [s \in 0..(n_samples - 1) |-> 0],
                            !.XAtEnd = [s \in 0..(n_samples - 1) |-> NoMatrix],
                            !.gammaAtEnd = [s \in 0..(n_samples - 1) |-> NoMatrix],
                            !.visitW = Zeros(n_dipoles, n_times),
                            !.sweepW = Zeros(n_dipoles, n_times),
                            !.valid = ValidConfig,
                            !.startX = IF X0 = NoMatrix THEN NoMatrix ELSE StartX]
    /\ UNCHANGED <<inputs, gammas, kSCGibbs, randLocOrder, pos, jLoc, jTime, jDir,
                   coordv, slicev, gammav>>

\* Line 116: the outer loop's test; line 171: the return.
Outer ==
    /\ pc = "outer"
    /\ IF k < n_samples
       THEN kSCGibbs' = 0 /\ pc' = "sweep"
       ELSE kSCGibbs' = kSCGibbs /\ pc' = "done"
    /\ UNCHANGED <<inputs, gammas, X, XChain, gammaChain, k, randLocOrder, pos, jLoc,
                   jTime, jDir, coordv, slicev, gammav, err, hist>>

\* Lines 123-126: one more group sweep in a fresh order, or (line 163) the norms
\* of the groups for the redraw of gamma.
Sweep ==
    /\ pc = "sweep"
    /\ IF kSCGibbs < sc_n_samples
       THEN /\ randLocOrder' \in LocOrders(n_locations)
            /\ pos' = 0
            /\ pc' = "loc"
            /\ hist' = [hist EXCEPT !.sweepW = Zeros(n_dipoles, n_times)]
            /\ UNCHANGED gammav
       ELSE /\ XBlkNorm' = BlkNorm(X)
            /\ gi' = 0
            /\ newGammas' = <<>>
            /\ pc' = "gamma"
            /\ hist' = [hist EXCEPT !.via = {}]
            /\ UNCHANGED <<randLocOrder, pos, env>>
    /\ UNCHANGED <<inputs, gammas, X, XChain, gammaChain, k, kSCGibbs, jLoc, jTime, jDir,
                   coordv, slicev, err>>

\* Lines 127-134: visit the next group of the order.
Loc ==
    /\ pc = "loc"
    /\ IF pos < n_locations
       THEN /\ jLoc' = randLocOrder[pos]
            /\ a' = CoefA(randLocOrder[pos])
            /\ c' = CoefC(gammas[randLocOrder[pos]])
            /\ XLocSqNorm' = FroNormSq(X, randLocOrder[pos])
            /\ jTime' = 0 /\ jDir' = 0
            /\ pc' = "coord"
            /\ hist' = [hist EXCEPT !.visitW = Zeros(n_dipoles, n_times)]
            /\ UNCHANGED <<kSCGibbs>>
       ELSE /\ kSCGibbs' = kSCGibbs + 1
            /\ pc' = "sweep"
            /\ hist' = [hist EXCEPT !.sweeps = @ + 1]
            /\ UNCHANGED <<jLoc, a, c, XLocSqNorm, jTime, jDir>>
    /\ UNCHANGED <<inputs, gammas, X, XChain, gammaChain, k, randLocOrder, pos, b, d,
                   slicev, gammav, err>>

\* Lines 137-149 and 70-76: the next (time, direction) pair: b, d and the call of
\* the slice sampler up to its first sweep.
Coord ==
    /\ pc = "coord"
    /\ IF jTime < n_times
       THEN LET jComp == JComp(jDir, jLoc)
                XjComp == X[jComp][jTime]
                nb == CoefB(X, jComp, jTime, a)
            IN  /\ b' = nb
                /\ d' = CoefD(XLocSqNorm, XjComp)
                /\ x' = XjComp
                /\ ssk' = 0
                /\ hist' = [hist EXCEPT !.sliceDraws = 0]
                /\ IF SliceEnter(a, nb) = NoError
                   THEN pc' = "slice" /\ err' = err
                   ELSE Raise(SliceEnter(a, nb))
                /\ pos' = pos
       ELSE /\ pos' = pos + 1
            /\ pc' = "loc"
            /\ UNCHANGED <<b, d, x, ssk, err, hist>>
    /\ UNCHANGED <<inputs, gammas, X, XChain, gammaChain, k, kSCGibbs, randLocOrder, jLoc,
                   jTime, jDir, a, c, XLocSqNorm, gammav>>

\* Lines 77-90: one sweep of the slice sampler.
SliceSweep ==
    /\ pc = "slice"
    /\ ssk < ss_n_samples
    /\ \E t \in RandSet : \E o \in SweepOutcomes(c, d, x, t) :
          /\ x' = o.x
          /\ IF o.err = NoError THEN pc' = pc /\ err' = err ELSE Raise(o.err)
          /\ hist' = [hist EXCEPT
                !.sliceDraws = @ + 1,
                !.last = [kind |-> o.kind, pre |-> FMul(x, x) + d,
                          arg |-> IF FMul(x, x) + d < 0 THEN 0 ELSE RootArg(c, d, x, t),
                          xi |-> IF FMul(x, x) + d < 0 \/ RootArg(c, d, x, t) < 0
                                 THEN 0 ELSE FSqrt(RootArg(c, d, x, t))]]
    /\ ssk' = ssk + 1
    /\ UNCHANGED <<inputs, gammas, X, XChain, gammaChain, loopv, coordv, gammav>>

\* Lines 92 and 151-152: the slice sampler returns; write the entry back.
SliceReturn ==
    /\ pc = "slice"
    /\ ssk = ss_n_samples
    /\ XLocSqNorm' = d + FMul(x, x)
    /\ X' = [X EXCEPT ![JComp(jDir, jLoc)][jTime] = x]
    /\ hist' = [hist EXCEPT !.visitW[JComp(jDir, jLoc)][jTime] = @ + 1,
                            !.sweepW[JComp(jDir, jLoc)][jTime] = @ + 1,
                            !.xWrites = @ + 1]
    /\ IF jDir + 1 < n_orient
       THEN jDir' = jDir + 1 /\ jTime' = jTime
       ELSE jDir' = 0 /\ jTime' = jTime + 1
    /\ pc' = "coord"
    /\ UNCHANGED <<inputs, gammas, XChain, gammaChain, k, kSCGibbs, randLocOrder, pos, jLoc,
                   a, b, c, d, slicev, gammav, err>>

\* A faulty variant of line 167: the test is missing.
PastBurnin_Always(kk) == TRUE

\* Line 167: past burn-in.
PastBurnin(kk) == kk >= 0

\* Line 168: XChain[:, :, k] = X copies the values of X into the chain.
\* (numpy counts a negative index from the end)
StoreX(chain, kk, A) == [chain EXCEPT ![IF kk < 0 THEN kk + Size(chain) ELSE kk] = A]

\* Line 169: gammaChain[:, k] = gammas.
StoreGamma(chain, kk, g) == [chain EXCEPT ![IF kk < 0 THEN kk + Size(chain) ELSE kk] = g]

\* newGammas with element gi set to g (line 60).
WithGamma(g) == [l \in 0..gi |-> IF l < gi THEN newGammas[l] ELSE g]

\* Lines 59-60 with lines 13-15: the element's coupling is 0, an exponential draw.
GammaExp ==
    /\ pc = "gamma"
    /\ gi < n_locations
    /\ XBlkNorm[gi] = 0
    /\ \E u \in RandSet : newGammas' = WithGamma(ExpDraw(beta, u))
    /\ gi' = gi + 1
    /\ hist' = [hist EXCEPT !.via = @ \cup {"exp"}]
    /\ UNCHANGED <<inputs, gammas, X, XChain, gammaChain, loopv, coordv, slicev, XBlkNorm,
                   env, pc, err>>

\* Lines 59-60 with lines 17-27: the element's envelope.
GammaEnvelope ==
    /\ pc = "gamma"
    /\ gi < n_locations
    /\ XBlkNorm[gi] # 0
    /\ IF FSqrt(FMul(beta, XBlkNorm[gi])) = 0
       THEN Raise(ZeroDivision) /\ env' = env
       ELSE /\ env' = Envelope(XBlkNorm[gi], beta)
            /\ pc' = "reject"
            /\ err' = err
    /\ hist' = [hist EXCEPT !.rejected = FALSE]
    /\ UNCHANGED <<inputs, gammas, X, XChain, gammaChain, loopv, coordv, slicev, gi,
                   newGammas, XBlkNorm>>

\* A faulty variant of lines 29-45: the breaks of lines 39 and 45 are missing.
RoundEnds_NoBreak(accepted, cand, branch) ==
    /\ hist' = [hist EXCEPT !.rejected = TRUE]
    /\ UNCHANGED <<newGammas, gi, pc, err>>

\* Lines 29-45: what one round of the loop leaves, for the candidate cand.
RoundEnds(accepted, cand, branch) ==
    IF accepted
    THEN /\ newGammas' = WithGamma(cand)
         /\ gi' = gi + 1
         /\ pc' = "gamma"
         /\ err' = err
         /\ hist' = [hist EXCEPT !.via = @ \cup {branch}, !.rejected = FALSE]
    ELSE /\ hist' = [hist EXCEPT !.rejected = TRUE]
         /\ UNCHANGED <<newGammas, gi, pc, err>>

\* Lines 30-39: a round that falls in the tail.
TailRound ==
    /\ pc = "reject"
    /\ \E w, u, v \in RandSet :
          /\ InTail(env, w)
          /\ RoundEnds(TailAccepts(env, XBlkNorm[gi], beta, u, v),
                       TailCandidate(env, beta, v), "tail")
    /\ UNCHANGED <<inputs, gammas, X, XChain, gammaChain, loopv, coordv, slicev, XBlkNorm,
                   env>>

\* Lines 30-32 and 40-45: a round that falls in the rectangle.
RectRound ==
    /\ pc = "reject"
    /\ \E w, u, v \in RandSet :
          /\ ~InTail(env, w)
          /\ IF RectCandidate(env, v) = 0
             THEN Raise(ZeroDivision) /\ UNCHANGED <<newGammas, gi, hist>>
             ELSE RoundEnds(RectAccepts(env, XBlkNorm[gi], beta, u, v),
                            RectCandidate(env, v), "rect")
    /\ UNCHANGED <<inputs, gammas, X, XChain, gammaChain, loopv, coordv, slicev, XBlkNorm,
                   env>>

\* Lines 164-169: gamma is redrawn; past burn-in the state goes into the chains.
GammaDone ==
    /\ pc = "gamma"
    /\ gi = n_locations
    /\ gammas' = newGammas
    /\ IF PastBurnin(k)
       THEN /\ XChain' = StoreX(XChain, k, X)
            /\ gammaChain' = StoreGamma(gammaChain, k, newGammas)
       ELSE UNCHANGED <<XChain, gammaChain>>
    /\ hist' = [hist EXCEPT
          !.redraws = @ + 1,
          !.chainW = [s \in DOMAIN @ |->
                         IF XChain'[s] # XChain[s] \/ gammaChain'[s] # gammaChain[s]
                            \/ (k >= 0 /\ s = k)
                         THEN @[s] + 1 ELSE @[s]],
          !.XAtEnd = IF k >= 0 THEN [@ EXCEPT ![k] = X] ELSE @,
          !.gammaAtEnd = IF k >= 0 THEN [@ EXCEPT ![k] = newGammas] ELSE @]
    /\ k' = k + 1
    /\ pc' = "outer"
    /\ UNCHANGED <<inputs, X, kSCGibbs, randLocOrder, pos, jLoc, jTime, jDir, coordv,
                   slicev, gammav, err>>

Next ==
    \/ Enter
    \/ Outer
    \/ Sweep
    \/ Loc
    \/ Coord
    \/ SliceSweep
    \/ SliceReturn
    \/ GammaExp
    \/ GammaEnvelope
    \/ TailRound
    \/ RectRound
    \/ GammaDone

Spec == Init /\ [][Next]_vars

\* Every configuration, the invalid ones too.
SpecAny == InitAny /\ [][Next]_vars

\* The runs with valid arguments, a starting matrix and sweep counts > 0; the
\* program keeps running and the random draws are fair: a loop that can accept
\* does not reject for ever.
FairInit == Init /\ X0 # NoMatrix /\ ss_n_samples > 0

FairSpec == FairInit /\ [][Next]_vars /\ WF_vars(Next)

TypeOK ==
    /\ pc \in {"entry", "outer", "sweep", "loc", "coord", "slice", "gamma", "reject",
               "done", "error"}
    /\ (pc = "error") = (err # NoError)

\* The configuration the run was called with is valid (gammas changes later).
Valid == IF pc = "entry" THEN ValidConfig ELSE hist.valid

---------------------------------------------------------------------------
(* The claims. *)

\* C1: the chains have n_samples entries; entry s of XChain is X as it was at the
\* end of post-burn-in iteration s and entry s of gammaChain the gamma redrawn in
\* it; an entry is written once, when its iteration ends, and not before (burn-in
\* iterations write nothing) nor changed after (later updates of X leave it).
C1_ChainsAreSnapshots ==
    pc # "entry" =>
        /\ DOMAIN XChain = 0..(n_samples - 1)
        /\ DOMAIN gammaChain = 0..(n_samples - 1)
        /\ pc = "done" => k = n_samples
        /\ \A s \in 0..(n_samples - 1) :
              IF s < k
              THEN /\ XChain[s] = hist.XAtEnd[s]
                   /\ gammaChain[s] = hist.gammaAtEnd[s]
                   /\ hist.chainW[s] = 1
              ELSE /\ XChain[s] = Zeros(n_dipoles, n_times)
                   /\ gammaChain[s] = [l \in Locations |-> 0]
                   /\ hist.chainW[s] = 0

\* C1 witness: a run returned two samples, the first kept while X moved on.
C1_Witness ==
    /\ pc = "done" /\ n_samples = 2
    /\ XChain[0] # XChain[1] /\ XChain[1] = X /\ gammaChain[0] # gammaChain[1]

\* C2: with a valid configuration every entry of gamma, every value the
\* hyperparameter sampler returned, every stored gammaChain entry and the c of a
\* visit are > 0.
C2_GammaPositive ==
    Valid =>
        /\ \A l \in DOMAIN gammas : gammas[l] > 0
        /\ \A l \in DOMAIN newGammas : newGammas[l] > 0
        /\ \A s \in DOMAIN gammaChain : s < k => \A l \in Locations : gammaChain[s][l] > 0
        /\ pc \in {"coord", "slice"} => c > 0

\* C2 witness: in a valid run gamma was redrawn with one element from the tail
\* branch and one from the rectangle branch, and stored.
C2_Witness ==
    /\ Valid /\ pc = "outer" /\ k = 1 /\ hist.via = {"tail", "rect"}
    /\ gammaChain[0] = gammas

RunEnded ==
    \/ /\ pc = "done"
       /\ k = n_samples
       /\ hist.redraws = n_burnin + n_samples
       /\ hist.sweeps = sc_n_samples * (n_burnin + n_samples)
    \/ /\ pc = "error"
       /\ err \in {ShouldNotHappen, MathDomain}
       /\ hist.sliceDraws = ssk /\ ssk <= ss_n_samples

C4_DegenerateCallFails ==
    /\ [](pc = "slice" => ~(a = 0 /\ b = 0))
    /\ [](err = ShouldNotHappen =>
            pc = "error" /\ a = 0 /\ b = 0 /\ ssk = 0 /\ hist.sliceDraws = 0)
    /\ [][(pc = "coord" /\ jTime < n_times /\ a = 0 /\ b' = 0) =>
            (err' = ShouldNotHappen /\ pc' = "error" /\ X' = X /\ XChain' = XChain)]_vars
    /\ [][pc # "error"]_vars

\* C4 witness: the error was raised in the middle of a run, also with no sweeps.
C4_Witness == err = ShouldNotHappen /\ hist.xWrites > 0 /\ ss_n_samples = 0

\* C5 as stated: an invalid configuration is rejected at entry: no coordinate of
\* X is updated, gamma is not redrawn, and no chains are returned.
C5_RejectedAtEntry ==
    ~Valid => (hist.xWrites = 0 /\ hist.redraws = 0 /\ pc # "done")

\* C6 as stated: the X the driver starts from is the X0 supplied; in particular
\* an X0 that has non-zero entries is the start, not zeros.
C6_StartIsX0 ==
    (pc # "entry" /\ X0 # NoMatrix) => hist.startX = X0

C8_NoIntervalGivesZero ==
    (pc \in {"slice", "error"} /\ hist.sliceDraws > 0 /\ c > 0 /\ d >= 0) =>
        IF hist.last.arg < 0 \/ hist.last.xi <= 0
        THEN x = 0 /\ err = NoError /\ hist.last.kind = "zero"
        ELSE Abs(x) <= hist.last.xi /\ err = NoError /\ hist.last.kind = "rtnorm"

\* C9 as stated: the a of a coordinate update is half the squared norm of the
\* column of jComp itself.
C9_AIsOwnColumn ==
    pc = "slice" =>
        a = FDiv(GTG[JComp(jDir, jLoc)][JComp(jDir, jLoc)], 2 * Unit)

\* C10 as stated: during a visit XLocSqNorm is the sum of the squares of the
\* block's entries, and d the sum of the squares of the other entries, never
\* negative.
C10_RunningNorm ==
    /\ pc \in {"coord", "slice"} => XLocSqNorm = BlockSumSq(X, jLoc)
    /\ pc = "slice" =>
          /\ d = BlockSumSq(X, jLoc) - FMul(X[JComp(jDir, jLoc)][jTime], X[JComp(jDir, jLoc)][jTime])
          /\ d >= 0

====
